---- MODULE Spec2Model ----
(***************************************************************************)
(* Model of package cli (qqiao/cli): a tree of command line Components,    *)
(* each with a flag set, a usage text and an optional Run action, and the  *)
(* Passthrough dispatcher.                                                  *)
(*                                                                         *)
(* The sources hold two implementations of the package:                    *)
(*   src/cli.go                    Flag is a flag.FlagSet value field      *)
(*   src/unnamed/part_001:225-368  flagSet is a lazily created pointer,    *)
(*                                 reached through FlagSet()               *)
(* The variable impl says which of the two a behaviour runs; definitions   *)
(* of the first carry the suffix _cli, those of the second the source's    *)
(* plain names.                                                            *)
(*                                                                         *)
(* Text is a sequence of atoms: an atom is one character of a modelled     *)
(* string, the newline NL, or a literal of a template that holds no        *)
(* newline.  Argument tokens, usage lines and names are sequences of       *)
(* one-character strings, so that Name() and the flag parser work on       *)
(* characters as the code does.                                            *)
(***************************************************************************)
EXTENDS Integers, Sequences, FiniteSets, TLC

VARIABLES
    impl,        \* "cli.go" or "part_001": the implementation in use
    Components,  \* Components[c]: sequence of the children of c
    Run,         \* Run[c]: "nil", "leaf" (a user action) or "Passthrough"
    UsageLine,   \* UsageLine[c]: sequence of characters
    Short,       \* Short[c]: sequence of atoms
    Long,        \* Long[c]: sequence of characters
    flagSet,     \* flagSet[c]: the flag set of c (alloc = FALSE: nil pointer)
    nextId,      \* identity given to the next flag.NewFlagSet result
    status,      \* "ok", "panic" (run-time panic) or "exit" (os.Exit)
    out,         \* out[s]: text written to sink s by the last operation
    trace,       \* events of the last operation, in order
    op,          \* the last operation called from outside and its inputs
    ret,         \* value returned by the last Name() / FlagSet() call
    nops         \* number of operations called so far

vars == <<impl, Components, Run, UsageLine, Short, Long, flagSet, nextId,
          status, out, trace, op, ret, nops>>

config == <<impl, Components, Run, UsageLine, Short, Long>>

(***************************************************************************)
(* Bounds                                                                  *)
(***************************************************************************)
MaxOps == 2

MaxLine == 4

NComp == 3

Comps == 1..NComp

Root == 1

NL == "\n"

Sinks == {"stderr", "buf"}

Contexts == {"ctx1", "ctx2"}

RECURSIVE SeqsUpTo(_, _)
SeqsUpTo(S, n) ==
    IF n = 0 THEN {<<>>}
    ELSE LET shorter == SeqsUpTo(S, n - 1)
         IN  shorter \cup {Append(s, x) : s \in shorter, x \in S}

(***************************************************************************)
(* strings.Index, strings.TrimSpace, printf "%-11s"                        *)
(***************************************************************************)
Index(s, ch) ==
    IF \E i \in 1..Len(s) : s[i] = ch
    THEN (CHOOSE i \in 1..Len(s) :
              s[i] = ch /\ \A j \in 1..(i - 1) : s[j] # ch) - 1
    ELSE -1

IsSpace(ch) == ch \in {" ", NL, "\t"}

RECURSIVE TrimLeft(_)
TrimLeft(s) ==
    IF Len(s) > 0 /\ IsSpace(s[1]) THEN TrimLeft(Tail(s)) ELSE s

RECURSIVE TrimRight(_)
TrimRight(s) ==
    IF Len(s) > 0 /\ IsSpace(s[Len(s)])
    THEN TrimRight(SubSeq(s, 1, Len(s) - 1)) ELSE s

trim(s) == TrimRight(TrimLeft(s))

PadWidth == 11

printfPad(s) ==
    IF Len(s) >= PadWidth THEN s
    ELSE s \o [i \in 1..(PadWidth - Len(s)) |-> " "]

(***************************************************************************)
(* Component accessors                                                     *)
(***************************************************************************)
\* Name() cut at the last space instead of the first
Name_lastSpace(c) ==
    LET name   == UsageLine[c]
        spaces == {i \in 1..Len(name) : name[i] = " "}
    IN  IF spaces = {} THEN name
        ELSE SubSeq(name, 1, (CHOOSE i \in spaces : \A j \in spaces : j <= i) - 1)

Name(c) ==
    LET name == UsageLine[c]
        i    == Index(name, " ")
    IN  IF i >= 0 THEN SubSeq(name, 1, i) ELSE name

Runnable(c) == Run[c] # "nil"

(***************************************************************************)
(* flag.FlagSet, as far as the package uses it                             *)
(***************************************************************************)
FlagUsage == "input of the test component"

HelpNames == {<<"h">>, <<"h", "e", "l", "p">>}

\* the zero flag.FlagSet of the struct field Flag (src/cli.go:37)
ZeroFlagSet(c) ==
    [alloc |-> TRUE, id |-> c, name |-> <<>>, Usage |-> 0, output |-> "nil",
     formal |-> {}, args |-> <<>>, parsed |-> FALSE,
     errorHandling |-> "ContinueOnError"]

\* the nil *flag.FlagSet of the struct field flagSet (part_001:276)
NilFlagSet ==
    [alloc |-> FALSE, id |-> 0, name |-> <<>>, Usage |-> 0, output |-> "nil",
     formal |-> {}, args |-> <<>>, parsed |-> FALSE,
     errorHandling |-> "ContinueOnError"]

\* flag.NewFlagSet(c.Name(), flag.ExitOnError) with Usage = c.Usage
NewFlagSet(c, id) ==
    [alloc |-> TRUE, id |-> id, name |-> Name(c), Usage |-> c,
     output |-> "nil", formal |-> {}, args |-> <<>>, parsed |-> FALSE,
     errorHandling |-> "ExitOnError"]

\* FlagSet.Output(): os.Stderr when no output was set
Output(f) == IF f.output = "nil" THEN "stderr" ELSE f.output

\* FlagSet.PrintDefaults(): the registered flags, sorted by name; every flag
\* of the model is a string flag with an empty default
FlagNames == <<<<"i">>>>

RECURSIVE DefaultsFrom(_, _)
DefaultsFrom(f, k) ==
    IF k > Len(FlagNames) THEN <<>>
    ELSE (IF FlagNames[k] \in f.formal
          THEN <<"  -">> \o FlagNames[k]
               \o <<" string", NL, "    \t", FlagUsage, NL>>
          ELSE <<>>)
         \o DefaultsFrom(f, k + 1)

PrintDefaults(f) == DefaultsFrom(f, 1)

(***************************************************************************)
(* The running process: st = [flagSet, nextId, status, out, trace]         *)
(***************************************************************************)
Ev(ev, c, ctx, args, by) ==
    [ev |-> ev, c |-> c, ctx |-> ctx, args |-> args, by |-> by]

Write(st, sink, text) == [st EXCEPT !.out[sink] = @ \o text]

Event(st, e) == [st EXCEPT !.trace = Append(@, e)]

Panic(st) == [st EXCEPT !.status = "panic"]

Exit(st) == [st EXCEPT !.status = "exit"]

(***************************************************************************)
(* src/unnamed/part_001:225-368                                            *)
(***************************************************************************)
FlagSet(st, c) ==
    IF ~st.flagSet[c].alloc
    THEN [st EXCEPT !.flagSet[c] = NewFlagSet(c, st.nextId),
                    !.nextId = @ + 1]
    ELSE st

SetOutput(st, c, output) ==
    [FlagSet(st, c) EXCEPT !.flagSet[c].output = output]

RECURSIVE RangeComponents(_, _)
RangeComponents(cs, indent) ==
    IF Len(cs) = 0 THEN <<>>
    ELSE (IF Runnable(cs[1])
          THEN <<NL, indent>> \o printfPad(Name(cs[1]))
               \o <<" ">> \o Short[cs[1]]
          ELSE <<>>)
         \o RangeComponents(Tail(cs), indent)

usageTemplate(c, flags) ==
    (IF Runnable(c) THEN <<"Usage: ">> \o UsageLine[c] ELSE <<>>)
    \o (IF Len(Long[c]) # 0 THEN trim(Long[c]) ELSE <<>>)
    \o (IF Len(Components[c]) # 0
        THEN <<NL, "The components are:", NL>>
             \o RangeComponents(Components[c], "  ")
        ELSE <<>>)
    \o <<NL>>
    \o (IF Len(flags) # 0
        THEN <<NL, "The flags are:", NL>> \o flags
        ELSE <<>>)

\* Usage() writing to os.Stderr whatever the output of the flag set is
Usage_toStderr(st, c) ==
    IF ~st.flagSet[c].alloc THEN Panic(st)
    ELSE LET output == Output(st.flagSet[c])
             buf    == PrintDefaults(st.flagSet[c])
             st1    == [st EXCEPT !.flagSet[c].output = output]
         IN  Event(Write(st1, "stderr", usageTemplate(c, buf)),
                   Ev("Usage", c, "", <<>>, 0))

\* Usage() putting back the default output (nil) instead of the saved one
Usage_resetsOutput(st, c) ==
    IF ~st.flagSet[c].alloc THEN Panic(st)
    ELSE LET output == Output(st.flagSet[c])
             buf    == PrintDefaults(st.flagSet[c])
             st1    == [st EXCEPT !.flagSet[c].output = "nil"]
         IN  Event(Write(st1, output, usageTemplate(c, buf)),
                   Ev("Usage", c, "", <<>>, 0))

Usage(st, c) ==
    IF ~st.flagSet[c].alloc THEN Panic(st)
    ELSE LET output == Output(st.flagSet[c])
             buf    == PrintDefaults(st.flagSet[c])
             st1    == [st EXCEPT !.flagSet[c].output = output]
         IN  Event(Write(st1, output, usageTemplate(c, buf)),
                   Ev("Usage", c, "", <<>>, 0))

(***************************************************************************)
(* src/cli.go                                                              *)
(***************************************************************************)
SetOutput_cli(st, c, output) ==
    [st EXCEPT !.flagSet[c].output = output]

usageTemplate_cli(c) ==
    (IF Runnable(c) THEN <<"Usage: ">> \o UsageLine[c] \o <<NL>> ELSE <<>>)
    \o (IF Len(Long[c]) # 0 THEN trim(Long[c]) ELSE <<>>)
    \o <<NL>>
    \o (IF Len(Components[c]) # 0
        THEN <<NL, "The components are:", NL>>
             \o RangeComponents(Components[c], "    ")
        ELSE <<>>)
    \o <<NL>>

Usage_cli(st, c) ==
    LET f == st.flagSet[c]
    IN  Event(Write(Write(st, Output(f), usageTemplate_cli(c)),
                    Output(f), PrintDefaults(f)),
              Ev("Usage", c, "", <<>>, 0))

(***************************************************************************)
(* flag.FlagSet: usage and Parse                                           *)
(***************************************************************************)
\* the method value c.Usage of the implementation in use
UsageMethod(st, c) ==
    IF impl = "cli.go" THEN Usage_cli(st, c) ELSE Usage(st, c)

\* FlagSet.defaultUsage(), used by the flag package when Usage is nil
defaultUsage(st, c) ==
    LET f == st.flagSet[c]
        head == IF Len(f.name) = 0 THEN <<"Usage:", NL>>
                ELSE <<"Usage of ">> \o f.name \o <<":", NL>>
    IN  Event(Write(st, Output(f), head \o PrintDefaults(f)),
              Ev("defaultUsage", c, "", <<>>, 0))

\* FlagSet.usage(): the flag package's own call of the hook
usage(st, c) ==
    IF st.flagSet[c].Usage = 0 THEN defaultUsage(st, c)
    ELSE UsageMethod(st, st.flagSet[c].Usage)

\* a call f.Usage() of the field by the package: a nil func value panics
CallUsage(st, c) ==
    IF st.flagSet[c].Usage = 0 THEN Panic(st)
    ELSE UsageMethod(st, st.flagSet[c].Usage)

\* FlagSet.failf: print the error, then usage()
failf(st, c) ==
    usage(Event(Write(st, Output(st.flagSet[c]), <<"flag error", NL>>),
                Ev("error", c, "", <<>>, 0)), c)

\* FlagSet.parseOne repeated; the result is [st, err]
RECURSIVE parseLoop(_, _)
parseLoop(st, c) ==
    LET f    == st.flagSet[c]
        args == f.args
    IN  IF Len(args) = 0 THEN [st |-> st, err |-> "nil"]
        ELSE LET s == args[1] IN
        IF Len(s) < 2 \/ s[1] # "-" THEN [st |-> st, err |-> "nil"]
        ELSE LET numMinuses == IF s[2] = "-" THEN 2 ELSE 1 IN
        IF numMinuses = 2 /\ Len(s) = 2
        THEN [st |-> [st EXCEPT !.flagSet[c].args = Tail(args)],
              err |-> "nil"]
        ELSE LET name == SubSeq(s, numMinuses + 1, Len(s)) IN
        IF Len(name) = 0 \/ name[1] \in {"-", "="}
        THEN [st |-> failf(st, c), err |-> "error"]
        ELSE LET st1 == [st EXCEPT !.flagSet[c].args = Tail(args)] IN
        IF name \notin f.formal
        THEN IF name \in HelpNames
             THEN [st |-> Event(usage(st1, c), Ev("ErrHelp", c, "", <<>>, 0)),
                   err |-> "ErrHelp"]
             ELSE [st |-> failf(st1, c), err |-> "error"]
        ELSE IF Len(Tail(args)) = 0
             THEN [st |-> failf(st1, c), err |-> "error"]
             ELSE parseLoop([st1 EXCEPT !.flagSet[c].args = Tail(Tail(args))],
                            c)

\* FlagSet.Parse(arguments)
Parse(st, c, arguments) ==
    LET r == parseLoop([st EXCEPT !.flagSet[c].parsed = TRUE,
                                  !.flagSet[c].args = arguments], c)
    IN  IF r.err = "nil" \/ r.st.status # "ok" THEN r
        ELSE IF r.st.flagSet[c].errorHandling = "ExitOnError"
             THEN [st |-> Exit(r.st), err |-> r.err]
             ELSE r

(***************************************************************************)
(* Passthrough                                                             *)
(***************************************************************************)
\* index of the child the loop of Passthrough runs: the first one whose
\* Name() is name and which is Runnable(); 0 when the loop ends without one
FirstRunnable(c, name) ==
    LET hits == {k \in 1..Len(Components[c]) :
                    /\ name = Name(Components[c][k])
                    /\ Runnable(Components[c][k])}
    IN  IF hits = {} THEN 0
        ELSE CHOOSE k \in hits : \A j \in hits : k <= j

\* args[1:] of a non-empty slice
Rest(args) == SubSeq(args, 2, Len(args))

\* src/unnamed/part_001:338-359
RECURSIVE Passthrough(_, _, _, _)
Passthrough(st, ctx, component, args) ==
    LET p == Parse(FlagSet(st, component), component, args) IN
    IF p.st.status # "ok" \/ p.err = "ErrHelp" THEN p.st
    ELSE
    LET f == p.st.flagSet[component] IN
    IF Len(f.args) < 1 THEN CallUsage(p.st, component)
    ELSE
    LET name == f.args[1]
        k    == FirstRunnable(component, name)
    IN  IF k = 0 THEN CallUsage(p.st, component)
        ELSE LET comp == Components[component][k]
                 st1  == Event(p.st, Ev("Run", comp, ctx, Rest(f.args),
                                        component))
             IN  IF Run[comp] = "Passthrough"
                 THEN Passthrough(st1, ctx, comp, Rest(f.args))
                 ELSE st1

\* src/cli.go:92-114
RECURSIVE Passthrough_cli(_, _, _, _)
Passthrough_cli(st, ctx, component, args) ==
    LET p == Parse(st, component, args) IN
    IF p.st.status # "ok" \/ p.err = "ErrHelp" THEN p.st
    ELSE
    LET f == p.st.flagSet[component] IN
    IF Len(f.args) < 1 THEN CallUsage(p.st, component)
    ELSE
    LET name == f.args[1]
        k    == FirstRunnable(component, name)
    IN  IF k = 0 THEN CallUsage(p.st, component)
        ELSE LET comp == Components[component][k]
                 st1  == [p.st EXCEPT !.flagSet[comp].Usage = comp]
                 st2  == Event(st1, Ev("Run", comp, ctx, Rest(args),
                                       component))
             IN  IF Run[comp] = "Passthrough"
                 THEN Passthrough_cli(st2, ctx, comp, Rest(args))
                 ELSE st2

(***************************************************************************)
(* Operations called from outside                                          *)
(***************************************************************************)
NoOp == [name |-> "none", c |-> 0, ctx |-> "", args |-> <<>>, sink |-> ""]

Op(name, c, ctx, args, sink) ==
    [name |-> name, c |-> c, ctx |-> ctx, args |-> args, sink |-> sink]

NoOut == [s \in Sinks |-> <<>>]

\* the process at the start of an operation
Start ==
    [flagSet |-> flagSet, nextId |-> nextId, status |-> "ok",
     out |-> NoOut, trace |-> <<>>]

\* the components that are part of the tree
RECURSIVE Below(_)
Below(c) ==
    {c} \cup UNION {Below(Components[c][k]) : k \in 1..Len(Components[c])}

InTree == Below(Root)

Ready == status = "ok" /\ nops < MaxOps

Finish(st, o, r) ==
    /\ flagSet' = st.flagSet
    /\ nextId' = st.nextId
    /\ status' = st.status
    /\ out' = st.out
    /\ trace' = st.trace
    /\ op' = o
    /\ ret' = r
    /\ nops' = nops + 1
    /\ UNCHANGED config

\* argument vectors given to Passthrough
tI == <<"-", "i">>

tH == <<"-", "h">>

tHelp == <<"-", "-", "h", "e", "l", "p">>

tX == <<"-", "x">>

tEnd == <<"-", "-">>

tA == <<"a">>

tB == <<"b">>

tV == <<"v">>

ArgVectors ==
    { <<>>, <<tA>>, <<tA, tV>>, <<tB>>,
      <<tI, tV, tA, tV>>, <<tEnd, tA, tV>>,
      <<tH, tA>>, <<tHelp>>, <<tX, tA>>, <<tA, tH>>, <<tA, tI, tV, tB>> }

DoPassthrough ==
    /\ Ready
    /\ \E ctx \in Contexts, args \in ArgVectors :
          Finish(IF impl = "cli.go"
                 THEN Passthrough_cli(Start, ctx, Root, args)
                 ELSE Passthrough(Start, ctx, Root, args),
                 Op("Passthrough", Root, ctx, args, ""), <<>>)

DoUsage ==
    /\ Ready
    /\ \E c \in InTree :
          Finish(UsageMethod(Start, c), Op("Usage", c, "", <<>>, ""), <<>>)

DoSetOutput ==
    /\ Ready
    /\ \E c \in InTree, s \in {"nil", "buf"} :
          Finish(IF impl = "cli.go" THEN SetOutput_cli(Start, c, s)
                 ELSE SetOutput(Start, c, s),
                 Op("SetOutput", c, "", <<>>, s), <<>>)

\* c.FlagSet(): only part_001 has the method
DoFlagSet ==
    /\ Ready
    /\ impl = "part_001"
    /\ \E c \in InTree :
          LET st == FlagSet(Start, c)
          IN  Finish(st, Op("FlagSet", c, "", <<>>, ""), <<st.flagSet[c].id>>)

\* c.FlagSet().String("i", "", ...) and c.Flag.String("i", "", ...)
DoString ==
    /\ Ready
    /\ \E c \in InTree :
          LET st == IF impl = "cli.go" THEN Start ELSE FlagSet(Start, c)
          IN  /\ <<"i">> \notin st.flagSet[c].formal
              /\ Finish([st EXCEPT !.flagSet[c].formal = @ \cup {<<"i">>}],
                        Op("String", c, "", <<>>, ""), <<>>)

DoName ==
    /\ Ready
    /\ \E c \in InTree :
          Finish(Start, Op("Name", c, "", <<>>, ""), Name(c))

(***************************************************************************)
(* Initial states: the component trees a program can build                 *)
(***************************************************************************)
Trees ==
    { [c \in Comps |-> <<>>],
      [c \in Comps |-> IF c = 1 THEN <<2>> ELSE <<>>],
      [c \in Comps |-> IF c = 1 THEN <<2, 3>> ELSE <<>>],
      [c \in Comps |-> IF c = 1 THEN <<2>> ELSE IF c = 2 THEN <<3>> ELSE <<>>] }

RootLines == {<<"r", " ", "x">>}

ChildLines == {<<"a">>, <<"b", " ", "y">>}

Longs == {<<>>, <<" ", "L", NL>>}

InitConfig ==
    /\ impl \in {"cli.go", "part_001"}
    /\ Components \in Trees
    /\ Run \in [Comps -> {"nil", "leaf", "Passthrough"}]
    /\ Run[Root] # "leaf"
    /\ \A c \in Comps :
          /\ c \notin InTree => Run[c] = "nil"
          /\ Run[c] = "Passthrough" => Len(Components[c]) > 0 \/ c = Root
          /\ c # Root /\ Len(Components[c]) > 0 => Run[c] = "Passthrough"
    /\ UsageLine \in [Comps -> RootLines \cup ChildLines]
    /\ \A c \in Comps :
          /\ c = Root => UsageLine[c] \in RootLines
          /\ c # Root /\ c \in InTree => UsageLine[c] \in ChildLines
          /\ c = 2 => UsageLine[c] = <<"a">>
          /\ c \notin InTree => UsageLine[c] = <<"a">>
    /\ Short = [c \in Comps |-> <<"short", ToString(c)>>]
    /\ Long \in [Comps -> Longs]
    /\ \A c \in Comps : c # Root => Long[c] = <<>>

\* flags the program registered on the root while it built the tree
\* (c.Flag.String / c.FlagSet().String before any call of Passthrough)
InitFlags == {{}, {<<"i">>}}

InitProcess ==
    /\ \E flags \in InitFlags :
          /\ flagSet = [c \in Comps |->
                IF impl = "cli.go"
                THEN IF c = Root
                     THEN [ZeroFlagSet(c) EXCEPT !.formal = flags]
                     ELSE ZeroFlagSet(c)
                ELSE IF c = Root /\ flags # {}
                     THEN [NewFlagSet(c, NComp + 1) EXCEPT !.formal = flags]
                     ELSE NilFlagSet]
          /\ nextId = IF impl = "part_001" /\ flags # {}
                      THEN NComp + 2 ELSE NComp + 1
    /\ status = "ok"
    /\ out = NoOut
    /\ trace = <<>>
    /\ op = NoOp
    /\ ret = <<>>
    /\ nops = 0

Init == InitConfig /\ InitProcess

Next ==
    \/ DoPassthrough
    \/ DoUsage
    \/ DoSetOutput
    \/ DoFlagSet
    \/ DoString

Spec == Init /\ [][Next]_vars

(***************************************************************************)
(* Name() on every usage line of at most MaxLine characters                *)
(***************************************************************************)
LineChars == {"a", "b", " "}

InitName ==
    /\ impl \in {"cli.go", "part_001"}
    /\ Components = [c \in Comps |-> <<>>]
    /\ Run = [c \in Comps |-> "nil"]
    /\ \E line \in SeqsUpTo(LineChars, MaxLine) :
          UsageLine = [c \in Comps |-> IF c = Root THEN line ELSE <<>>]
    /\ Short = [c \in Comps |-> <<>>]
    /\ Long = [c \in Comps |-> <<>>]
    /\ InitProcess

NextName == DoName

SpecName == InitName /\ [][NextName]_vars

(***************************************************************************)
(* Observations of the last operation                                      *)
(***************************************************************************)
\* the positional arguments left by the flag parsing of the last Passthrough
Positional == flagSet[op.c].args

\* the text the last Usage() wrote to the sink of its flag set
UsageText == out[Output(flagSet[op.c])]

EventsOf(kind) == {i \in 1..Len(trace) : trace[i].ev = kind}

\* the last Passthrough parsed its flags without a help request or an error
ParsedCleanly ==
    /\ op.name = "Passthrough"
    /\ \A i \in 1..Len(trace) :
          trace[i].c = op.c => trace[i].ev \notin {"ErrHelp", "error"}

ChildrenNamed(c, name) ==
    {k \in 1..Len(Components[c]) :
        LET line == UsageLine[Components[c][k]]
        IN  \/ line = name /\ \A i \in 1..Len(line) : line[i] # " "
            \/ /\ Len(line) > Len(name)
               /\ SubSeq(line, 1, Len(name)) = name
               /\ line[Len(name) + 1] = " "
               /\ \A i \in 1..Len(name) : name[i] # " "}

RECURSIVE Lines(_)
Lines(text) ==
    IF Len(text) = 0 THEN <<>>
    ELSE LET nls == {i \in 1..Len(text) : text[i] = NL}
         IN  IF nls = {} THEN <<text>>
             ELSE LET i == CHOOSE x \in nls : \A y \in nls : x <= y
                  IN  <<SubSeq(text, 1, i - 1)>>
                      \o Lines(SubSeq(text, i + 1, Len(text)))

HasAtom(text, a) == \E i \in 1..Len(text) : text[i] = a

IsPrefix(p, text) == Len(p) <= Len(text) /\ SubSeq(text, 1, Len(p)) = p

(***************************************************************************)
(* C1: when, after flag parsing, the first positional argument is the      *)
(* Name() of a runnable child, Passthrough invokes that child's action     *)
(* with the same context, the child as component, and exactly the          *)
(* positional arguments left by the flag parsing minus the first one.      *)
(***************************************************************************)
C1_ChildGetsRemainingArgs ==
    ( /\ op.name = "Passthrough"
      /\ status # "exit"
      /\ EventsOf("ErrHelp") = {}
      /\ Len(Positional) >= 1
      /\ \E k \in ChildrenNamed(op.c, Positional[1]) :
            Run[Components[op.c][k]] # "nil" )
    => /\ EventsOf("Run") # {}
       /\ LET e == trace[CHOOSE i \in EventsOf("Run") :
                            \A j \in EventsOf("Run") : i <= j]
          IN  /\ e.by = op.c
              /\ \E k \in ChildrenNamed(op.c, Positional[1]) :
                    e.c = Components[op.c][k] /\ Run[e.c] # "nil"
              /\ e.ctx = op.ctx
              /\ e.args = SubSeq(Positional, 2, Len(Positional))

(***************************************************************************)
(* C2: when no positional argument remains after flag parsing, or the      *)
(* first one is the Name() of no child, Passthrough renders the usage of   *)
(* this component, invokes no child action and returns without panicking.  *)
(***************************************************************************)
C2_FallbackToUsage ==
    ( /\ ParsedCleanly
      /\ \/ Len(Positional) = 0
         \/ ChildrenNamed(op.c, Positional[1]) = {} )
    => /\ status = "ok"
       /\ EventsOf("Run") = {}
       /\ \E i \in EventsOf("Usage") : trace[i].c = op.c

(***************************************************************************)
(* C3: when the first positional argument is the Name() of a child that    *)
(* is not runnable, Passthrough prints the usage of this component and     *)
(* invokes no action at all, whatever the children list is.                *)
(***************************************************************************)
C3_NonRunnableMatch ==
    ( /\ ParsedCleanly
      /\ Len(Positional) >= 1
      /\ \E k \in ChildrenNamed(op.c, Positional[1]) :
            Run[Components[op.c][k]] = "nil" )
    => /\ status = "ok"
       /\ EventsOf("Run") = {}
       /\ \E i \in EventsOf("Usage") : trace[i].c = op.c

(***************************************************************************)
(* C4: when the flag parsing of a Passthrough signals ErrHelp, nothing     *)
(* follows it (no child action, no further usage), and the usage emitted   *)
(* is the Usage() rendering of that component, produced exactly once.      *)
(***************************************************************************)
C4_HelpShortCircuits ==
    \A i \in EventsOf("ErrHelp") :
        /\ i = Len(trace)
        /\ status # "panic"
        /\ i > 1 /\ trace[i - 1].ev = "Usage" /\ trace[i - 1].c = trace[i].c
        /\ Cardinality({j \in EventsOf("Usage") \cup EventsOf("defaultUsage") :
                           trace[j].c = trace[i].c}) = 1

(***************************************************************************)
(* C5: the output of Usage() begins with the line "Usage: <usageLine>"     *)
(* iff the component is runnable; for a component that is not runnable no  *)
(* "Usage:" line appears anywhere in the output.                           *)
(***************************************************************************)
C5_UsageLineIffRunnable ==
    (op.name = "Usage" /\ status = "ok")
    => IF Run[op.c] # "nil"
       THEN IsPrefix(<<"Usage: ">> \o UsageLine[op.c] \o <<NL>>, UsageText)
       ELSE ~HasAtom(UsageText, "Usage: ")

(***************************************************************************)
(* C6: the components block is present iff the children list is not        *)
(* empty; its header "The components are:" is followed by exactly one      *)
(* line per runnable child, in insertion order, each the child's name      *)
(* padded to width 11, one space and the short description, with no blank  *)
(* line between the header and the entries or between entries.             *)
(***************************************************************************)
RunnableChildren(c) == SelectSeq(Components[c], LAMBDA k : Run[k] # "nil")

EntryLine(k) == printfPad(Name(k)) \o <<" ">> \o Short[k]

StripIndent(line) ==
    IF Len(line) > 0 /\ line[1] \in {"  ", "    "} THEN Tail(line) ELSE line

C6_ComponentsBlock ==
    (op.name = "Usage" /\ status = "ok")
    => LET lines == Lines(UsageText)
           heads == {i \in 1..Len(lines) : lines[i] = <<"The components are:">>}
           kids  == RunnableChildren(op.c)
       IN  /\ (Len(Components[op.c]) # 0) <=> (heads # {})
           /\ Cardinality(heads) <= 1
           /\ \A h \in heads :
                 /\ h + Len(kids) <= Len(lines)
                 /\ \A j \in 1..Len(kids) :
                       StripIndent(lines[h + j]) = EntryLine(kids[j])
                 /\ h + Len(kids) < Len(lines)
                       => lines[h + Len(kids) + 1] = <<>>

(***************************************************************************)
(* C7: the output of Usage() is the present blocks in the order usage      *)
(* line, long description, components block, flags block, with exactly     *)
(* one blank line between consecutive present blocks, none before the      *)
(* first block, no two consecutive blank lines and no trailing blank       *)
(* block.                                                                  *)
(***************************************************************************)
\* the first atom of each block that is present, in the order of the claim
BlockHeads(c) ==
    (IF Run[c] # "nil" THEN <<"Usage: ">> ELSE <<>>)
    \o (IF Len(trim(Long[c])) # 0 THEN <<trim(Long[c])[1]>> ELSE <<>>)
    \o (IF Len(Components[c]) # 0 THEN <<"The components are:">> ELSE <<>>)
    \o (IF flagSet[c].formal # {} THEN <<"The flags are:">> ELSE <<>>)

PositionOf(text, a) ==
    IF HasAtom(text, a)
    THEN CHOOSE i \in 1..Len(text) :
             text[i] = a /\ \A j \in 1..(i - 1) : text[j] # a
    ELSE 0

C7_BlockLayout ==
    (op.name = "Usage" /\ status = "ok")
    => LET text  == UsageText
           heads == BlockHeads(op.c)
           pos   == [k \in 1..Len(heads) |-> PositionOf(text, heads[k])]
       IN  /\ \A k \in 1..Len(heads) : pos[k] > 0
           /\ Len(heads) > 0 => pos[1] = 1
           /\ \A k \in 2..Len(heads) :
                 /\ pos[k] > pos[k - 1] + 2
                 /\ text[pos[k] - 1] = NL
                 /\ text[pos[k] - 2] = NL
                 /\ text[pos[k] - 3] # NL
           /\ \A i \in 1..(Len(text) - 2) :
                 ~(text[i] = NL /\ text[i + 1] = NL /\ text[i + 2] = NL)
           /\ Len(text) >= 2 => ~(text[Len(text)] = NL /\ text[Len(text) - 1] = NL)
           /\ Len(text) >= 1 => text[1] # NL

(***************************************************************************)
(* C8: the output of Usage() holds the header "The flags are:" followed    *)
(* by the default-formatted flag descriptions iff a flag is registered;    *)
(* a runnable component with no long text, children or flags renders       *)
(* exactly "Usage: <usageLine>\n".                                         *)
(***************************************************************************)
C8_FlagsBlock ==
    (op.name = "Usage" /\ status = "ok")
    => LET text  == UsageText
           flags == PrintDefaults(flagSet[op.c])
           block == <<"The flags are:", NL>> \o flags
       IN  /\ flagSet[op.c].formal # {}
                => /\ Len(text) >= Len(block)
                   /\ SubSeq(text, Len(text) - Len(block) + 1, Len(text)) = block
           /\ flagSet[op.c].formal = {}
                => ~HasAtom(text, "The flags are:") /\ ~HasAtom(text, "  -")
           /\ ( /\ Run[op.c] # "nil"
                /\ Len(Long[op.c]) = 0
                /\ Len(Components[op.c]) = 0
                /\ flagSet[op.c].formal = {} )
                => text = <<"Usage: ">> \o UsageLine[op.c] \o <<NL>>

(***************************************************************************)
(* C9: Name() returns the part of usageLine before the first space, the    *)
(* whole line when it holds no space, the empty string when the line is    *)
(* empty, and changes no state of the component.                           *)
(***************************************************************************)
C9_NameIsFirstWord ==
    [][op'.name = "Name" =>
         LET line   == UsageLine[op'.c]
             spaces == {i \in 1..Len(line) : line[i] = " "}
         IN  /\ spaces = {} => ret' = line
             /\ Len(line) = 0 => ret' = <<>>
             /\ spaces # {} =>
                   \E n \in 0..(Len(line) - 1) :
                      /\ n + 1 \in spaces
                      /\ \A j \in spaces : n + 1 <= j
                      /\ ret' = [i \in 1..n |-> line[i]]
             /\ UNCHANGED <<config, flagSet, nextId, status>>]_vars

\* Name() was called on a line with two spaces and a first word
C9_Witness ==
    /\ op.name = "Name"
    /\ Cardinality({i \in 1..Len(UsageLine[op.c]) : UsageLine[op.c][i] = " "}) >= 2
    /\ Len(ret) >= 1
    /\ Len(ret) + 2 < Len(UsageLine[op.c])

(***************************************************************************)
(* C10: the flag set of a component is created at most once, bound to the  *)
(* component's Name() and with its usage hook set to the component's       *)
(* Usage(); later accesses give the same instance, so registered flags     *)
(* stay registered and a flag parsing failure renders the component's      *)
(* full usage.                                                             *)
(***************************************************************************)
C10_FlagSetOnce ==
    /\ [](/\ (op.name # "none" /\ flagSet[op.c].alloc)
             => /\ flagSet[op.c].name = Name(op.c)
                /\ flagSet[op.c].Usage = op.c
          /\ \A i \in EventsOf("error") :
                /\ i < Len(trace)
                /\ trace[i + 1].ev = "Usage"
                /\ trace[i + 1].c = trace[i].c)
    /\ [][\A c \in Comps :
             flagSet[c].alloc
             => /\ flagSet'[c].alloc
                /\ flagSet'[c].id = flagSet[c].id
                /\ flagSet[c].formal \subseteq flagSet'[c].formal]_vars

(***************************************************************************)
(* C11: after SetOutput(s) every later Usage() of the component, called    *)
(* directly, by the fallback of Passthrough or by the usage hook of the    *)
(* flag set, writes its whole text, flags block included, to s and         *)
(* nothing to another sink; SetOutput(nil) means standard error; the last  *)
(* SetOutput decides.                                                      *)
(***************************************************************************)
\* the sink the flag set of c is set to: standard error when none is set
SinkOf(f) == IF f.output = "nil" THEN "stderr" ELSE f.output

ConfiguredSink(c) == SinkOf(flagSet[c])

WritingEvents ==
    EventsOf("Usage") \cup EventsOf("defaultUsage") \cup EventsOf("error")

C11_UsageGoesToSink ==
    /\ [](/\ \A i \in EventsOf("Usage") :
                LET text == out[ConfiguredSink(trace[i].c)]
                IN  /\ HasAtom(text, NL)
                    /\ flagSet[trace[i].c].formal # {} => HasAtom(text, "  -")
          /\ \A t \in Sinks :
                out[t] # <<>>
                => \E j \in WritingEvents : ConfiguredSink(trace[j].c) = t)
    /\ [][/\ op'.name = "SetOutput"
             => /\ flagSet'[op'.c].output = op'.sink
                /\ SinkOf(flagSet'[op'.c]) =
                      (IF op'.sink = "nil" THEN "stderr" ELSE op'.sink)
          /\ op'.name # "SetOutput"
             => \A c \in Comps : SinkOf(flagSet'[c]) = SinkOf(flagSet[c])]_vars

\* after SetOutput(buf), Usage() of a component with a flag wrote to buf only
C11_Witness ==
    /\ op.name = "Usage"
    /\ status = "ok"
    /\ flagSet[op.c].output = "buf"
    /\ flagSet[op.c].formal # {}
    /\ HasAtom(out["buf"], "  -")
    /\ out["stderr"] = <<>>

(***************************************************************************)
(* C12: one invocation of Passthrough ends in exactly one outcome: either  *)
(* exactly one child action is invoked once and the usage of this          *)
(* component is not printed, or the usage is printed exactly once and no   *)
(* child action is invoked; an invoked child is the first one in           *)
(* insertion order whose Name() is the first positional argument and       *)
(* which is runnable.                                                      *)
(***************************************************************************)
\* the components Passthrough was invoked on during the last operation
PassthroughOn ==
    IF op.name # "Passthrough" THEN {}
    ELSE {op.c} \cup {trace[i].c : i \in {j \in EventsOf("Run") :
                                            Run[trace[j].c] = "Passthrough"}}

RunsBy(c) == {i \in EventsOf("Run") : trace[i].by = c}

UsagesOf(c) == {i \in EventsOf("Usage") : trace[i].c = c}

C12_ExactlyOneOutcome ==
    \A c \in PassthroughOn :
        /\ \/ Cardinality(RunsBy(c)) = 1 /\ UsagesOf(c) = {}
           \/ RunsBy(c) = {} /\ Cardinality(UsagesOf(c)) = 1
        /\ \A i \in RunsBy(c) :
              /\ Len(flagSet[c].args) >= 1
              /\ LET hits == {k \in ChildrenNamed(c, flagSet[c].args[1]) :
                                 Run[Components[c][k]] # "nil"}
                 IN  /\ hits # {}
                     /\ \E k \in hits :
                           /\ \A j \in hits : k <= j
                           /\ trace[i].c = Components[c][k]

(***************************************************************************)
(* C13: a Passthrough call changes no usage line, short or long text,      *)
(* children list or action of the dispatching component or of a child,     *)
(* and no child's flag set configuration (registered flags, usage hook):   *)
(* they are at the start of the chosen child's action what they were       *)
(* before the call.  A child whose action is a user action changes         *)
(* nothing itself, so for it the state after the call is the state at the  *)
(* start of its action.                                                    *)
(***************************************************************************)
C13_PassthroughFrame ==
    [][op'.name = "Passthrough" =>
         /\ UNCHANGED <<UsageLine, Short, Long, Components, Run>>
         /\ \A k \in 1..Len(Components[op'.c]) :
               LET comp == Components[op'.c][k]
               IN  Run[comp] # "Passthrough"
                   => /\ flagSet'[comp].formal = flagSet[comp].formal
                      /\ flagSet'[comp].Usage = flagSet[comp].Usage]_vars

(***************************************************************************)
(* C14: Usage() leaves the output target of the flag set as it found it:   *)
(* after it returns the target is the sink set before the call, so two     *)
(* Usage() calls in a row write the same text to the same sink, and the    *)
(* text of a later parse error goes to that sink too.                      *)
(***************************************************************************)
C14_UsageRestoresOutput ==
    [][/\ (op'.name = "Usage" /\ status' = "ok")
          => /\ SinkOf(flagSet'[op'.c]) = SinkOf(flagSet[op'.c])
             /\ (op.name = "Usage" /\ op.c = op'.c) => out' = out
       /\ (op.name = "Usage" /\ op'.name = "Passthrough" /\ op'.c = op.c
           /\ \E i \in 1..Len(trace') :
                 trace'[i].ev = "error" /\ trace'[i].c = op.c)
          => /\ \E i \in 1..Len(out'[SinkOf(flagSet[op.c])]) :
                   out'[SinkOf(flagSet[op.c])][i] = "flag error"
             /\ \A t \in Sinks \ {SinkOf(flagSet[op.c])} :
                   \A i \in 1..Len(out'[t]) : out'[t][i] # "flag error"]_vars

\* Usage() of the implementation with the intermediate buffer has returned
\* and the flag set still writes to the sink buf
C14_Witness ==
    /\ impl = "part_001"
    /\ op.name = "Usage"
    /\ status = "ok"
    /\ flagSet[op.c].output = "buf"
    /\ out["buf"] # <<>>
    /\ out["stderr"] = <<>>

====
